---- MODULE Spec2Model ----
(***************************************************************************)
(* Model of export.py (ffmr-stats): the insert_data command, which turns   *)
(* the nodes.json and graph.json documents of ffmap-backend into InfluxDB   *)
(* point batches, and the pure helpers it is built from.                    *)
(*                                                                          *)
(* Representation of the Python values:                                     *)
(*   - a str is the sequence of its characters (<<"a","_","b">> is "a_b"),  *)
(*     so that k + '_' + child_k is sequence concatenation and a key        *)
(*     "contains '_'" when one of its elements is "_";                      *)
(*   - a JSON scalar is a record tagged by its Python type, a float being   *)
(*     held in tenths ([t |-> "float", v |-> 15] is 1.5);                   *)
(*   - a dict is the sequence of its <<key, value>> items in insertion      *)
(*     order, with pairwise distinct keys;                                  *)
(*   - a raised exception is a result record with ok = FALSE.               *)
(***************************************************************************)
EXTENDS Integers, Sequences, FiniteSets, TLC

VARIABLES
    pc,         \* the line of insert_data the run is at (or stopped at)
    status,     \* "running", "returned", "exited" (exit(1)), "raised" (uncaught)
    resp,       \* what the last requests.get(url) gave: a failure or a document
    nodes,      \* insert_data's nodes: the node-info map, once fetched
    graph,      \* insert_data's graph: the batadv topology, once fetched
    ni,         \* number of items of nodes the first loop has consumed
    li,         \* number of links the second loop has consumed
    writes,     \* the calls of db.write_points so far, in order
    args,       \* arguments of a direct call of the helpers: stats, timestamp, tags
    flat,       \* what flatten_statistics(stats) returned
    result      \* what generate_statistics_query(stats, ...) returned or raised

vars == <<pc, status, resp, nodes, graph, ni, li, writes, args, flat, result>>

driver_vars == <<pc, status, resp, nodes, graph, ni, li, writes>>

helper_vars == <<args, flat, result>>

\* A local variable that has not been assigned yet.
Unset == [t |-> "unset"]

-----------------------------------------------------------------------------
(* Python values *)

Range(s) == {s[i] : i \in DOMAIN s}

PyInt(n) == [t |-> "int", v |-> n]

PyFloat(tenths) == [t |-> "float", v |-> tenths]

PyStr(chars) == [t |-> "str", v |-> chars]

PyBool(b) == [t |-> "bool", v |-> b]

PyNone == [t |-> "none"]

PyDict(items) == [t |-> "dict", v |-> items]

Raised == [ok |-> FALSE]

Returned(v) == [ok |-> TRUE, val |-> v]

\* dict operations on the item sequence
DictKeys(d) == {d[i][1] : i \in DOMAIN d}

DictHas(d, k) == \E i \in DOMAIN d : d[i][1] = k

DictGet(d, k) == d[CHOOSE i \in DOMAIN d : d[i][1] = k][2]

\* d[k] = v: replaces the value in place when k is present, appends otherwise
DictSet(d, k, v) ==
    IF DictHas(d, k)
    THEN [i \in DOMAIN d |-> IF d[i][1] = k THEN <<k, v>> ELSE d[i]]
    ELSE Append(d, <<k, v>>)

\* dict(iterable of pairs)
RECURSIVE DictOf(_)
DictOf(items) ==
    IF items = <<>> THEN <<>>
    ELSE LET n == Len(items)
         IN  DictSet(DictOf(SubSeq(items, 1, n - 1)), items[n][1], items[n][2])

Digits == <<"0", "1", "2", "3", "4", "5", "6", "7", "8", "9">>

IsDigit(c) == \E i \in DOMAIN Digits : Digits[i] = c

DigitVal(c) == (CHOOSE i \in DOMAIN Digits : Digits[i] = c) - 1

AllDigits(s) == s # <<>> /\ \A i \in DOMAIN s : IsDigit(s[i])

RECURSIVE DigitsVal(_)
DigitsVal(s) ==
    IF s = <<>> THEN 0
    ELSE 10 * DigitsVal(SubSeq(s, 1, Len(s) - 1)) + DigitVal(s[Len(s)])

RECURSIVE NatText(_)
NatText(n) ==
    IF n < 10 THEN <<Digits[n + 1]>>
    ELSE NatText(n \div 10) \o <<Digits[(n % 10) + 1]>>

IntText(n) == IF n < 0 THEN <<"-">> \o NatText(-n) ELSE NatText(n)

Unsigned(s) == IF s # <<>> /\ s[1] = "-" THEN Tail(s) ELSE s

Sign(s) == IF s # <<>> /\ s[1] = "-" THEN -1 ELSE 1

\* the text is an integer literal: an optional sign and digits
IsIntText(s) == AllDigits(Unsigned(s))

\* the text is digits "." digit: a decimal literal with one fractional digit
IsDecimalText(s) ==
    LET u == Unsigned(s)
    IN  /\ Len(u) >= 3
        /\ u[Len(u) - 1] = "."
        /\ IsDigit(u[Len(u)])
        /\ AllDigits(SubSeq(u, 1, Len(u) - 2))

\* truncation toward zero, as int() of a float
TruncTenths(m) == IF m < 0 THEN -((-m) \div 10) ELSE m \div 10

\* str(v): never raises
str(v) ==
    CASE v.t = "str" -> Returned(v)
      [] v.t = "int" -> Returned(PyStr(IntText(v.v)))
      [] v.t = "float" ->
            Returned(PyStr((IF v.v < 0 THEN <<"-">> ELSE <<>>)
                           \o NatText((IF v.v < 0 THEN -v.v ELSE v.v) \div 10)
                           \o <<".">>
                           \o NatText((IF v.v < 0 THEN -v.v ELSE v.v) % 10)))
      [] v.t = "bool" ->
            Returned(PyStr(IF v.v THEN <<"T", "r", "u", "e">>
                                  ELSE <<"F", "a", "l", "s", "e">>))
      [] v.t = "none" -> Returned(PyStr(<<"N", "o", "n", "e">>))
      [] OTHER -> Returned(PyStr(<<"{", "}">>))

\* float(v): raises ValueError on a text that is no number, TypeError on None or a dict
float(v) ==
    CASE v.t = "float" -> Returned(v)
      [] v.t = "int" -> Returned(PyFloat(10 * v.v))
      [] v.t = "bool" -> Returned(PyFloat(IF v.v THEN 10 ELSE 0))
      [] v.t = "str" ->
            IF IsIntText(v.v)
            THEN Returned(PyFloat(10 * Sign(v.v) * DigitsVal(Unsigned(v.v))))
            ELSE IF IsDecimalText(v.v)
            THEN LET u == Unsigned(v.v)
                 IN  Returned(PyFloat(Sign(v.v) *
                        (10 * DigitsVal(SubSeq(u, 1, Len(u) - 2)) + DigitVal(u[Len(u)]))))
            ELSE Raised
      [] OTHER -> Raised

\* int(v): truncates a float, raises ValueError on a text that is no integer
\* literal ("1.5" included), TypeError on None or a dict
int(v) ==
    CASE v.t = "int" -> Returned(v)
      [] v.t = "float" -> Returned(PyInt(TruncTenths(v.v)))
      [] v.t = "bool" -> Returned(PyInt(IF v.v THEN 1 ELSE 0))
      [] v.t = "str" ->
            IF IsIntText(v.v)
            THEN Returned(PyInt(Sign(v.v) * DigitsVal(Unsigned(v.v))))
            ELSE Raised
      [] OTHER -> Raised

-----------------------------------------------------------------------------
(* flatten_statistics and generate_statistics_query *)

K_gateway == <<"g", "a", "t", "e", "w", "a", "y">>

K_uptime == <<"u", "p", "t", "i", "m", "e">>

K_loadavg == <<"l", "o", "a", "d", "a", "v", "g">>

K_memory == <<"m", "e", "m", "o", "r", "y">>

K_rootfs == <<"r", "o", "o", "t", "f", "s">>

K_usage == <<"u", "s", "a", "g", "e">>

K_clients == <<"c", "l", "i", "e", "n", "t", "s">>

K_memory_usage == K_memory \o <<"_">> \o K_usage

K_rootfs_usage == K_rootfs \o <<"_">> \o K_usage

\* a separator forgotten in the joined key
JoinKeyNoSeparator(k, child_k) == k \o child_k

\* k + '_' + child_k
JoinKey(k, child_k) == k \o <<"_">> \o child_k

\* the items() generator of flatten_statistics, from item i on
RECURSIVE flatten_items(_, _), flatten_statistics(_)
flatten_items(d, i) ==
    IF i > Len(d) THEN <<>>
    ELSE LET k == d[i][1]
             v == d[i][2]
             child == flatten_statistics(v.v)
         IN  (IF v.t = "dict"
              THEN [j \in DOMAIN child |-> <<JoinKey(k, child[j][1]), child[j][2]>>]
              ELSE <<<<k, v>>>>)
             \o flatten_items(d, i + 1)

flatten_statistics(d) == DictOf(flatten_items(d, 1))

StringKeys == {K_gateway}

FloatKeys == {K_uptime, K_loadavg, K_memory_usage, K_rootfs_usage}

\* 'memory_usage' left out of the float keys
CoerceShortList(k, v) ==
    IF k \in StringKeys THEN str(v)
    ELSE IF k \in FloatKeys \ {K_memory_usage} THEN float(v)
    ELSE int(v)

\* the if / elif / else of generate_statistics_query: the coercion the key selects
Coerce(k, v) ==
    IF k \in StringKeys THEN str(v)
    ELSE IF k \in FloatKeys THEN float(v)
    ELSE int(v)

Measurement(k, value, timestamp, tags) ==
    [measurement |-> k, tags |-> tags, time |-> timestamp, fields |-> [value |-> value]]

\* the loop of generate_statistics_query over the first n flattened items:
\* the measurements appended so far, or the exception a coercion raised
RECURSIVE QueryLoop(_, _, _, _)
QueryLoop(fl, n, timestamp, tags) ==
    IF n = 0 THEN Returned(<<>>)
    ELSE LET before == QueryLoop(fl, n - 1, timestamp, tags)
             value == Coerce(fl[n][1], fl[n][2])
         IN  IF ~before.ok \/ ~value.ok THEN Raised
             ELSE Returned(Append(before.val,
                                  Measurement(fl[n][1], value.val, timestamp, tags)))

\* a coercion failure caught inside the loop: the statistic is left out
RECURSIVE QueryLoopSkipping(_, _, _, _)
QueryLoopSkipping(fl, n, timestamp, tags) ==
    IF n = 0 THEN Returned(<<>>)
    ELSE LET before == QueryLoopSkipping(fl, n - 1, timestamp, tags)
             value == Coerce(fl[n][1], fl[n][2])
         IN  IF ~value.ok THEN before
             ELSE Returned(Append(before.val,
                                  Measurement(fl[n][1], value.val, timestamp, tags)))

generate_statistics_query_skipping(s, timestamp, tags) ==
    LET fl == flatten_statistics(s)
    IN  QueryLoopSkipping(fl, Len(fl), timestamp, tags)

generate_statistics_query(s, timestamp, tags) ==
    LET fl == flatten_statistics(s)
    IN  QueryLoop(fl, Len(fl), timestamp, tags)

-----------------------------------------------------------------------------
(* Inputs of the helpers *)

\* largest number of keys, over all levels, of a statistics blob
MaxEntries == 3

KeyPool == {K_gateway, K_memory, K_usage, K_memory_usage}

ScalarPool == {PyInt(3), PyFloat(15), PyStr(<<"1", ".", "5">>), PyStr(<<"x">>)}

\* the dicts with n keys over all their levels whose first value is a scalar:
\* the first item, then the items of a dict that does not hold its key
RECURSIVE ScalarFirst(_), NestedFirst(_, _), DictsOfSize(_), NestedUpTo(_, _)
ScalarFirst(n) ==
    {<<<<x[1], x[2]>>>> \o x[3] :
         x \in {y \in KeyPool \X ScalarPool \X DictsOfSize(n - 1) : ~DictHas(y[3], y[1])}}

\* those whose first value is a dict with inner keys over all its levels
NestedFirst(n, inner) ==
    {<<<<x[1], PyDict(x[2])>>>> \o x[3] :
         x \in {y \in KeyPool \X DictsOfSize(inner) \X DictsOfSize(n - 1 - inner) :
                    ~DictHas(y[3], y[1])}}

NestedUpTo(n, inner) ==
    IF inner < 0 THEN {} ELSE NestedFirst(n, inner) \cup NestedUpTo(n, inner - 1)

DictsOfSize(n) ==
    IF n = 0 THEN {<<>>} ELSE ScalarFirst(n) \cup NestedUpTo(n, n - 1)

TimePool == {"2020-01-01T00:00:00Z"}

TagPool == {[node_id |-> 1, hostname |-> <<"host", 1>>]}

-----------------------------------------------------------------------------
(* The helpers called directly *)

Idle ==
    /\ pc = "idle"
    /\ status = "running"
    /\ resp = Unset
    /\ nodes = <<>>
    /\ graph = [nodes |-> <<>>, links |-> <<>>]
    /\ ni = 0
    /\ li = 0
    /\ writes = <<>>

\* the dicts with n keys whose first value is a scalar (inner = -1) or a dict
\* with inner keys
BlobFamily(n, inner) ==
    IF n = 0 THEN {<<>>} ELSE IF inner = -1 THEN ScalarFirst(n) ELSE NestedFirst(n, inner)

\* a call with any statistics blob of up to MaxEntries keys
HelperInit ==
    /\ Idle
    /\ \E n \in 0..MaxEntries, inner \in -1..(MaxEntries - 1) :
          /\ inner < n
          /\ \E blob \in BlobFamily(n, inner) :
                 args \in [stats : {blob}, timestamp : TimePool, tags : TagPool]
    /\ flat = Unset
    /\ result = Unset

CallFlatten ==
    /\ flat = Unset
    /\ flat' = Returned(flatten_statistics(args.stats))
    /\ UNCHANGED <<args, result>>
    /\ UNCHANGED driver_vars

CallQuery ==
    /\ result = Unset
    /\ result' = generate_statistics_query(args.stats, args.timestamp, args.tags)
    /\ UNCHANGED <<args, flat>>
    /\ UNCHANGED driver_vars

HelperNext == CallFlatten \/ CallQuery

SpecHelpers == HelperInit /\ [][HelperNext]_vars

-----------------------------------------------------------------------------
(* get_api_resource, get_nodes, get_graph *)

\* requests.get(url) raised a RequestException
Failed == [err |-> TRUE]

\* requests.get(url) answered, and r.json() is doc
Answered(doc) == [err |-> FALSE, json |-> doc]

\* obj[path[1]][path[2]]...: the value, or the KeyError of a missing key
RECURSIVE Lookup(_, _)
Lookup(obj, path) ==
    IF path = <<>> THEN Returned(obj)
    ELSE IF path[1] \in DOMAIN obj THEN Lookup(obj[path[1]], Tail(path))
    ELSE Raised

\* the version read with a default: api.get('version', 1)
get_api_resource_default(r) ==
    IF r.err THEN [kind |-> "exit"]
    ELSE IF Lookup(r.json, <<"version">>).ok /\ r.json.version # 1 THEN [kind |-> "raise"]
    ELSE [kind |-> "return", val |-> r.json]

\* the handler prints and falls through to `return api`, api being unbound
get_api_resource_no_exit(r) ==
    IF r.err THEN [kind |-> "raise"]
    ELSE IF ~Lookup(r.json, <<"version">>).ok THEN [kind |-> "raise"]
    ELSE IF r.json.version # 1 THEN [kind |-> "raise"]
    ELSE [kind |-> "return", val |-> r.json]

\* what a call leaves behind: "return" with a value, "exit" after exit(1),
\* "raise" for an exception that leaves the function
get_api_resource(r) ==
    IF r.err THEN [kind |-> "exit"]
    ELSE IF ~Lookup(r.json, <<"version">>).ok THEN [kind |-> "raise"]
    ELSE IF r.json.version # 1 THEN [kind |-> "raise"]
    ELSE [kind |-> "return", val |-> r.json]

get_nodes(r) ==
    LET api == get_api_resource(r)
    IN  IF api.kind # "return" THEN api
        ELSE IF ~Lookup(api.val, <<"nodes">>).ok THEN [kind |-> "raise"]
        ELSE [kind |-> "return", val |-> api.val.nodes]

get_graph(r) ==
    LET api == get_api_resource(r)
    IN  IF api.kind # "return" THEN api
        ELSE IF ~Lookup(api.val, <<"batadv">>).ok THEN [kind |-> "raise"]
        ELSE [kind |-> "return", val |-> api.val.batadv]

-----------------------------------------------------------------------------
(* The body of the two loops of insert_data *)

\* geohash.encode(latitude, longitude): one token per coordinate pair
Geohash(latitude, longitude) == <<"geohash", latitude, longitude>>

\* the tags dict literal: a KeyError when one of the eight values is missing
NodeTags(v) ==
    LET node_id == Lookup(v, <<"nodeinfo", "node_id">>)
        hostname == Lookup(v, <<"nodeinfo", "hostname">>)
        firmware_base == Lookup(v, <<"nodeinfo", "software", "firmware", "base">>)
        firmware_release == Lookup(v, <<"nodeinfo", "software", "firmware", "release">>)
        autoupdater_enabled == Lookup(v, <<"nodeinfo", "software", "autoupdater", "enabled">>)
        autoupdater_branch == Lookup(v, <<"nodeinfo", "software", "autoupdater", "branch">>)
        hardware_model == Lookup(v, <<"nodeinfo", "hardware", "model">>)
        hardware_nproc == Lookup(v, <<"nodeinfo", "hardware", "nproc">>)
    IN  IF /\ node_id.ok /\ hostname.ok /\ firmware_base.ok /\ firmware_release.ok
           /\ autoupdater_enabled.ok /\ autoupdater_branch.ok
           /\ hardware_model.ok /\ hardware_nproc.ok
        THEN Returned([node_id |-> node_id.val,
                       hostname |-> hostname.val,
                       firmware_base |-> firmware_base.val,
                       firmware_release |-> firmware_release.val,
                       autoupdater_enabled |-> autoupdater_enabled.val,
                       autoupdater_branch |-> autoupdater_branch.val,
                       hardware_model |-> hardware_model.val,
                       hardware_nproc |-> hardware_nproc.val])
        ELSE Raised

\* the inner try: tags['location'] is set unless a coordinate is missing
WithLocation(tags, v) ==
    LET latitude == Lookup(v, <<"nodeinfo", "location", "latitude">>)
        longitude == Lookup(v, <<"nodeinfo", "location", "longitude">>)
    IN  IF latitude.ok /\ longitude.ok
        THEN [k \in DOMAIN tags \cup {"location"} |->
                 IF k = "location" THEN Geohash(latitude.val, longitude.val) ELSE tags[k]]
        ELSE tags

\* the role looked up one level too high
IsGatewayWrongKey(v) ==
    /\ "role" \in DOMAIN v.nodeinfo
    /\ v.nodeinfo.role = "gateway"

IsGateway(v) ==
    /\ "role" \in DOMAIN v.nodeinfo.system
    /\ v.nodeinfo.system.role = "gateway"

\* the try body of the node loop up to the argument of db.write_points:
\* "continue" for a gateway, "raise" for an exception, "write" with the batch
NodeTry(v) ==
    IF ~Lookup(v, <<"nodeinfo", "system">>).ok THEN [kind |-> "raise", exc |-> "KeyError"]
    ELSE IF IsGateway(v) THEN [kind |-> "continue"]
    ELSE IF ~NodeTags(v).ok THEN [kind |-> "raise", exc |-> "KeyError"]
    ELSE IF ~Lookup(v, <<"statistics">>).ok \/ ~Lookup(v, <<"lastseen">>).ok
    THEN [kind |-> "raise", exc |-> "KeyError"]
    ELSE LET query == generate_statistics_query(
                          v.statistics, v.lastseen, WithLocation(NodeTags(v).val, v))
         IN  IF query.ok THEN [kind |-> "write", points |-> query.val]
             ELSE [kind |-> "raise", exc |-> "ValueError"]

\* list[i]: Python counts a negative index from the end; IndexError outside
ListIndex(list, i) ==
    IF 0 <= i /\ i < Len(list) THEN Returned(list[i + 1])
    ELSE IF i < 0 /\ -Len(list) <= i THEN Returned(list[Len(list) + i + 1])
    ELSE Raised

get_nodes_for_link(graph_nodes, real_nodes, source, target) ==
    LET s == ListIndex(graph_nodes, source)
        t == ListIndex(graph_nodes, target)
    IN  IF ~s.ok \/ ~t.ok THEN Raised
        ELSE IF ~Lookup(s.val, <<"node_id">>).ok \/ ~Lookup(t.val, <<"node_id">>).ok
        THEN Raised
        ELSE LET s_nodeid == s.val.node_id
                 t_nodeid == t.val.node_id
             IN  IF ~DictHas(real_nodes, s_nodeid) \/ ~DictHas(real_nodes, t_nodeid)
                 THEN Raised
                 ELSE LET s_hostname ==
                              Lookup(DictGet(real_nodes, s_nodeid), <<"nodeinfo", "hostname">>)
                          t_hostname ==
                              Lookup(DictGet(real_nodes, t_nodeid), <<"nodeinfo", "hostname">>)
                      IN  IF ~s_hostname.ok \/ ~t_hostname.ok THEN Raised
                          ELSE Returned(<<s_nodeid, t_nodeid, s_hostname.val, t_hostname.val>>)

\* the division guarded: a tq of 0 gives 0.0
ReciprocalGuarded(tq) ==
    IF tq = 0 THEN Returned([t |-> "float", num |-> 0, den |-> 1])
    ELSE Returned([t |-> "float", num |-> 1, den |-> tq])

\* float(1 / tq), held as the fraction; ZeroDivisionError when tq is 0
Reciprocal(tq) ==
    IF tq = 0 THEN Raised ELSE Returned([t |-> "float", num |-> 1, den |-> tq])

\* the measurement list literal of the link loop
LinkMeasurement(resolved, link, tq) ==
    <<[measurement |-> "link",
       time_precision |-> "m",
       tags |-> [s_nodeid |-> resolved[1],
                 t_nodeid |-> resolved[2],
                 s_hostname |-> resolved[3],
                 t_hostname |-> resolved[4],
                 bidirect |-> link.bidirect,
                 vpn |-> link.vpn],
       fields |-> [tq |-> tq]]>>

\* the try body of the link loop up to the argument of db.write_points
LinkTry(g, real_nodes, link) ==
    LET resolved == get_nodes_for_link(g.nodes, real_nodes, link.source, link.target)
        tq == Reciprocal(link.tq)
    IN  IF ~resolved.ok THEN [kind |-> "raise", exc |-> "LookupError"]
        ELSE IF ~tq.ok THEN [kind |-> "raise", exc |-> "ZeroDivisionError"]
        ELSE [kind |-> "write", points |-> LinkMeasurement(resolved.val, link, tq.val)]

\* one call of db.write_points: who called, with what, and whether it raised
WriteCall(by, points, db_ok) == [by |-> by, points |-> points, ok |-> db_ok]

\* the exception, if any, that leaves a try body: the one the body raised before
\* the write, or the one db.write_points raised
BodyException(body, db_ok) ==
    IF body.kind = "raise" THEN body.exc
    ELSE IF body.kind = "write" /\ ~db_ok THEN "ConnectionError"
    ELSE "none"

\* `except (KeyError, ValueError): continue`: anything else leaves the loop
ExceptDataErrors(exc) ==
    IF exc \in {"KeyError", "ValueError", "LookupError", "ZeroDivisionError"}
    THEN "continue" ELSE "propagate"

\* `except: continue` of the node loop: a bare except handles every exception
NodeExcept(exc) == "continue"

\* `except: continue` of the link loop
LinkExcept(exc) == "continue"

-----------------------------------------------------------------------------
(* Input documents *)

\* largest number of nodes of a nodes.json
MaxNodes == 2

\* largest number of links of a graph.json
MaxLinks == 2

LastSeen == "2020-01-01T00:00:00Z"

Host(id) == <<"host", id>>

Omit(f, keys) == [k \in DOMAIN f \ keys |-> f[k]]

Software ==
    [firmware |-> [base |-> "gluon-v2016.1", release |-> "0.8.2"],
     autoupdater |-> [enabled |-> TRUE, branch |-> "stable"]]

Hardware == [model |-> "TP-Link TL-WR841N/ND v9", nproc |-> 1]

Roles == {"absent", "gateway", "client"}

Shapes == {"full", "located", "badloc", "nohw", "nohost"}

\* a nodeinfo: role "absent" has no system.role; shape "located" has a location,
\* "badloc" one without longitude, "nohw" no hardware, "nohost" no hostname
NodeInfo(id, role, shape) ==
    Omit([node_id |-> id,
          hostname |-> Host(id),
          system |-> Omit([site_code |-> "ffmr", role |-> role],
                          IF role = "absent" THEN {"role"} ELSE {}),
          software |-> Software,
          hardware |-> Hardware,
          location |-> Omit([latitude |-> 508, longitude |-> 87],
                            IF shape = "badloc" THEN {"longitude"} ELSE {})],
         CASE shape = "full" -> {"location"}
           [] shape = "nohw" -> {"location", "hardware"}
           [] shape = "nohost" -> {"location", "hostname"}
           [] OTHER -> {})

NodeRecord(id, role, shape, st) ==
    [nodeinfo |-> NodeInfo(id, role, shape), statistics |-> st, lastseen |-> LastSeen]

\* {"gateway": "x", "memory": {"usage": 1.5}, "clients": "3"}: coerces to three points
StatsGood ==
    <<<<K_gateway, PyStr(<<"x">>)>>,
      <<K_memory, PyDict(<<<<K_usage, PyFloat(15)>>>>)>>,
      <<K_clients, PyStr(<<"3">>)>>>>

\* {"uptime": "1.5", "clients": "x"}: the second statistic is no integer
StatsBad == <<<<K_uptime, PyStr(<<"1", ".", "5">>)>>, <<K_clients, PyStr(<<"x">>)>>>>

StatsPool == {StatsGood, StatsBad}

\* the node-info map of the nodes f describes, node i having node_id i
NodeMap(f) == [i \in DOMAIN f |-> <<i, NodeRecord(i, f[i][1], f[i][2], f[i][3])>>]

\* what a url does: the request fails, or it answers with a JSON document that
\* has no version field, version 1 or version 2
FetchOutcomes == {"failed", "unversioned", "v1", "v2"}

Response(r, key, body) ==
    CASE r = "failed" -> Failed
      [] r = "unversioned" -> Answered([k \in {key} |-> body])
      [] r = "v1" -> Answered([k \in {key, "version"} |-> IF k = key THEN body ELSE 1])
      [] r = "v2" -> Answered([k \in {key, "version"} |-> IF k = key THEN body ELSE 2])

Link(source, target, tq) ==
    [source |-> source, target |-> target, tq |-> tq, vpn |-> FALSE, bidirect |-> TRUE]

Topology(ids) == [i \in DOMAIN ids |-> [node_id |-> ids[i]]]

-----------------------------------------------------------------------------
(* insert_data *)

Init ==
    /\ pc = "get_nodes"
    /\ status = "running"
    /\ resp = Unset
    /\ nodes = <<>>
    /\ graph = [nodes |-> <<>>, links |-> <<>>]
    /\ ni = 0
    /\ li = 0
    /\ writes = <<>>
    /\ args = Unset
    /\ flat = Unset
    /\ result = Unset

\* nodes = get_nodes(nodes_url), the url failing or answering with a nodes.json
\* of lengths nodes, each one of variants
GetNodes(lengths, variants) ==
    /\ pc = "get_nodes"
    /\ status = "running"
    /\ \E n \in lengths, r \in FetchOutcomes : \E f \in [1..n -> variants] :
          LET out == get_nodes(Response(r, "nodes", NodeMap(f)))
          IN  /\ resp' = Response(r, "nodes", NodeMap(f))
              /\ \/ /\ out.kind = "return"
                    /\ nodes' = out.val
                    /\ pc' = IF Len(out.val) = 0 THEN "get_graph" ELSE "node_loop"
                    /\ UNCHANGED status
                 \/ /\ out.kind = "exit"
                    /\ status' = "exited"
                    /\ UNCHANGED <<nodes, pc>>
                 \/ /\ out.kind = "raise"
                    /\ status' = "raised"
                    /\ UNCHANGED <<nodes, pc>>
    /\ UNCHANGED <<graph, ni, li, writes>>
    /\ UNCHANGED helper_vars

\* one iteration of `for k, v in nodes.items()`
NodeStep ==
    /\ pc = "node_loop"
    /\ status = "running"
    /\ ni < Len(nodes)
    /\ LET body == NodeTry(nodes[ni + 1][2])
       IN  \E db_ok \in (IF body.kind = "write" THEN BOOLEAN ELSE {TRUE}) :
              LET exc == BodyException(body, db_ok)
                  propagates == exc # "none" /\ NodeExcept(exc) # "continue"
              IN  /\ writes' = IF body.kind = "write"
                               THEN Append(writes, WriteCall(<<"node", ni + 1>>, body.points, db_ok))
                               ELSE writes
                  /\ ni' = IF propagates THEN ni ELSE ni + 1
                  /\ status' = IF propagates THEN "raised" ELSE status
                  /\ pc' = IF ~propagates /\ ni + 1 = Len(nodes) THEN "get_graph" ELSE pc
    /\ UNCHANGED <<resp, nodes, graph, li>>
    /\ UNCHANGED helper_vars

\* graph = get_graph(graph_url), the url failing or answering with a graph.json
\* whose node list is one of topologies, with lengths links, each one of links
GetGraph(topologies, lengths, links) ==
    /\ pc = "get_graph"
    /\ status = "running"
    /\ \E ids \in topologies, n \in lengths, r \in FetchOutcomes : \E f \in [1..n -> links] :
          LET body == [nodes |-> Topology(ids), links |-> f]
              out == get_graph(Response(r, "batadv", body))
          IN  /\ resp' = Response(r, "batadv", body)
              /\ \/ /\ out.kind = "return"
                    /\ graph' = out.val
                    /\ pc' = IF Len(out.val.links) = 0 THEN "end" ELSE "link_loop"
                    /\ status' = IF Len(out.val.links) = 0 THEN "returned" ELSE status
                 \/ /\ out.kind = "exit"
                    /\ status' = "exited"
                    /\ UNCHANGED <<graph, pc>>
                 \/ /\ out.kind = "raise"
                    /\ status' = "raised"
                    /\ UNCHANGED <<graph, pc>>
    /\ UNCHANGED <<nodes, ni, li, writes>>
    /\ UNCHANGED helper_vars

\* one iteration of `for link in graph['links']`; insert_data returns after the last
LinkStep ==
    /\ pc = "link_loop"
    /\ status = "running"
    /\ li < Len(graph.links)
    /\ LET body == LinkTry(graph, nodes, graph.links[li + 1])
       IN  \E db_ok \in (IF body.kind = "write" THEN BOOLEAN ELSE {TRUE}) :
              LET exc == BodyException(body, db_ok)
                  propagates == exc # "none" /\ LinkExcept(exc) # "continue"
                  last == ~propagates /\ li + 1 = Len(graph.links)
              IN  /\ writes' = IF body.kind = "write"
                               THEN Append(writes, WriteCall(<<"link", li + 1>>, body.points, db_ok))
                               ELSE writes
                  /\ li' = IF propagates THEN li ELSE li + 1
                  /\ status' = IF propagates THEN "raised" ELSE IF last THEN "returned" ELSE status
                  /\ pc' = IF last THEN "end" ELSE pc
    /\ UNCHANGED <<resp, nodes, graph, ni>>
    /\ UNCHANGED helper_vars

\* the exit status of the process, once it has stopped
ExitCode == IF status = "returned" THEN 0 ELSE 1

\* nodes of the runs: of every role with either statistics, and clients and
\* gateways with a location, with one lacking longitude, without hardware
RunNodes ==
    (Roles \X {"full"} \X StatsPool)
    \cup ({"client", "gateway"} \X {"located", "badloc", "nohw"} \X {StatsGood})

\* runs over every nodes.json of up to MaxNodes nodes, followed by a graph.json
\* of two topology nodes with no link or one link between them
Next ==
    \/ GetNodes(0..MaxNodes, RunNodes)
    \/ NodeStep
    \/ GetGraph({<<1, 2>>}, 0..1, {Link(0, 1, 2)})
    \/ LinkStep

Spec == Init /\ [][Next]_vars

\* nodes of the link runs: a gateway, or a node without hostname
LinkRunNodes == {<<"gateway", "full", StatsGood>>, <<"absent", "nohost", StatsGood>>}

\* link indices: the last node counted from the end, the first node, past the end
IndexPool == {-1, 0, 2}

TqPool == {0, 2}

LinkPool == {Link(l[1], l[2], l[3]) : l \in IndexPool \X IndexPool \X TqPool}

\* runs over a nodes.json of one or two nodes, followed by every graph.json of
\* two topology nodes and up to MaxLinks links
NextLinks ==
    \/ GetNodes({1, 2}, LinkRunNodes)
    \/ NodeStep
    \/ GetGraph({<<1, 2>>, <<2, 1>>}, 0..MaxLinks, LinkPool)
    \/ LinkStep

SpecLinks == Init /\ [][NextLinks]_vars

-----------------------------------------------------------------------------
(* Properties of flatten_statistics and generate_statistics_query *)

\* the scalar leaves of a blob, each with the keys on its way from the top
RECURSIVE Leaves(_)
Leaves(d) ==
    UNION {IF d[i][2].t = "dict"
           THEN {<<<<d[i][1]>> \o leaf[1], leaf[2]>> : leaf \in Leaves(d[i][2].v)}
           ELSE {<<<<d[i][1]>>, d[i][2]>>}
           : i \in DOMAIN d}

\* path segments joined with "_"
RECURSIVE Joined(_)
Joined(path) ==
    IF Len(path) = 1 THEN path[1]
    ELSE path[1] \o <<"_">> \o Joined(Tail(path))

\* some key of the blob, at any level, contains "_"
RECURSIVE HasSeparator(_)
HasSeparator(d) ==
    \E i \in DOMAIN d :
        \/ "_" \in Range(d[i][1])
        \/ d[i][2].t = "dict" /\ HasSeparator(d[i][2].v)

IsFlat(d) == \A i \in DOMAIN d : d[i][2].t # "dict"

\* C10: flatten_statistics returns a mapping whose keys are exactly the "_"-joined
\* paths of the scalar leaves, each holding the value of a leaf of that path; a
\* blob without nested values is returned as it is; and when no key contains
\* "_", every leaf has its own entry holding its value, so there are as many
\* entries as leaves.
C10_FlattenOnePerLeaf ==
    flat # Unset =>
        LET f == flat.val
            leaves == Leaves(args.stats)
        IN  /\ \A i, j \in DOMAIN f : f[i][1] = f[j][1] => i = j
            /\ DictKeys(f) = {Joined(leaf[1]) : leaf \in leaves}
            /\ \A i \in DOMAIN f :
                   \E leaf \in leaves : Joined(leaf[1]) = f[i][1] /\ leaf[2] = f[i][2]
            /\ IsFlat(args.stats) => f = args.stats
            /\ ~HasSeparator(args.stats) =>
                   /\ Len(f) = Cardinality(leaves)
                   /\ \A leaf \in leaves : DictGet(f, Joined(leaf[1])) = leaf[2]

\* a blob nested two levels deep with two leaves, no key containing "_", flattened
C10_Witness ==
    /\ flat # Unset
    /\ ~HasSeparator(args.stats)
    /\ Cardinality(Leaves(args.stats)) = 2
    /\ \E leaf \in Leaves(args.stats) : Len(leaf[1]) = 2
    /\ Len(flat.val) = 2

\* the kind the claim gives a flat key
KindOfKey(k) ==
    IF k = <<"g", "a", "t", "e", "w", "a", "y">> THEN "str"
    ELSE IF k \in {<<"u", "p", "t", "i", "m", "e">>,
                   <<"l", "o", "a", "d", "a", "v", "g">>,
                   <<"m", "e", "m", "o", "r", "y", "_", "u", "s", "a", "g", "e">>,
                   <<"r", "o", "o", "t", "f", "s", "_", "u", "s", "a", "g", "e">>}
    THEN "float"
    ELSE "int"

\* C9: when generate_statistics_query returns, it returns one point per entry of
\* flatten_statistics(stats), in order, with measurement = the flat key, the given
\* tags and timestamp, and the single field "value", a str for gateway, a float
\* for uptime, loadavg, memory_usage and rootfs_usage, an int for any other key.
C9_OnePointPerStatistic ==
    (result # Unset /\ result.ok) =>
        LET fl == flatten_statistics(args.stats)
        IN  /\ Len(result.val) = Len(fl)
            /\ \A i \in DOMAIN fl :
                   /\ DOMAIN result.val[i] = {"measurement", "tags", "time", "fields"}
                   /\ result.val[i].measurement = fl[i][1]
                   /\ result.val[i].tags = args.tags
                   /\ result.val[i].time = args.timestamp
                   /\ DOMAIN result.val[i].fields = {"value"}
                   /\ result.val[i].fields.value.t = KindOfKey(fl[i][1])

\* a query returned three points, one of each kind
C9_Witness ==
    /\ result # Unset
    /\ result.ok
    /\ Len(result.val) = 3
    /\ {result.val[i].fields.value.t : i \in 1..3} = {"str", "float", "int"}

-----------------------------------------------------------------------------
(* Properties of insert_data *)

\* the calls of db.write_points made by one iteration
Calls(by) == {k \in DOMAIN writes : writes[k].by = by}

RoleIsGateway(v) == Lookup(v, <<"nodeinfo", "system", "role">>) = Returned("gateway")

\* some flattened statistic of the node cannot be coerced to the kind of its key
CoercionFails(v) ==
    \E item \in Range(flatten_statistics(v.statistics)) : ~Coerce(item[1], item[2]).ok

\* a node that is no gateway, has what the tags need, and statistics that coerce
WellFormed(v) == ~RoleIsGateway(v) /\ NodeTags(v).ok /\ ~CoercionFails(v)

\* C1: a node with a statistic that cannot be coerced gets no call of
\* write_points at all, and every well-formed non-gateway node of the same run,
\* before or after it, gets exactly one call, holding one point per flattened
\* statistic, all tagged with the node.
C1_FailedNodeSkipped ==
    \A i \in 1..ni :
        LET v == nodes[i][2]
        IN  /\ CoercionFails(v) => Calls(<<"node", i>>) = {}
            /\ WellFormed(v) =>
                   /\ Cardinality(Calls(<<"node", i>>)) = 1
                   /\ \A k \in Calls(<<"node", i>>) :
                          /\ Len(writes[k].points) = Len(flatten_statistics(v.statistics))
                          /\ \A p \in DOMAIN writes[k].points :
                                 writes[k].points[p].tags.node_id = v.nodeinfo.node_id

\* a failing non-gateway node first, then a well-formed node with its batch
C1_Witness ==
    /\ ni = 2
    /\ CoercionFails(nodes[1][2])
    /\ ~RoleIsGateway(nodes[1][2])
    /\ NodeTags(nodes[1][2]).ok
    /\ Calls(<<"node", 1>>) = {}
    /\ WellFormed(nodes[2][2])
    /\ Calls(<<"node", 2>>) # {}

\* C2 as stated: a write_points failure ends the run with a non-zero exit and
\* nothing is processed after it.
C2_WriteFailureAborts ==
    \A k \in DOMAIN writes :
        ~writes[k].ok => (k = Len(writes) /\ status # "returned")

\* C2 amended: a write_points failure is swallowed by the loop's except clause.
\* The run only ever stops at a fetch, the loop moves past the node or link whose
\* write failed, and a run that reaches the end has consumed every node and every
\* link and exits with status 0.
C2_WriteFailureSwallowed ==
    /\ status \in {"raised", "exited"} => pc \in {"get_nodes", "get_graph"}
    /\ \A k \in DOMAIN writes :
           ~writes[k].ok =>
               writes[k].by[2] <= (IF writes[k].by[1] = "node" THEN ni ELSE li)
    /\ status = "returned" =>
           /\ ExitCode = 0
           /\ ni = Len(nodes)
           /\ li = Len(graph.links)

\* a run that returned although a node write and a link write failed
C2_Witness ==
    /\ status = "returned"
    /\ \E k \in DOMAIN writes : ~writes[k].ok /\ writes[k].by[1] = "node"
    /\ \E k \in DOMAIN writes : ~writes[k].ok /\ writes[k].by[1] = "link"

\* C3: every batch that could be built is handed to write_points exactly once,
\* whatever the outcome of the earlier writes: the calls made so far are exactly
\* those of the consumed nodes and links whose batch could be built, and a write
\* failure never stops a loop.
C3_EveryBatchAttempted ==
    /\ \A i \in 1..ni :
           Cardinality(Calls(<<"node", i>>)) =
               IF NodeTry(nodes[i][2]).kind = "write" THEN 1 ELSE 0
    /\ \A j \in 1..li :
           Cardinality(Calls(<<"link", j>>)) =
               IF LinkTry(graph, nodes, graph.links[j]).kind = "write" THEN 1 ELSE 0
    /\ \A k \in DOMAIN writes :
           writes[k].by[2] \in 1..(IF writes[k].by[1] = "node" THEN ni ELSE li)
    /\ pc \in {"node_loop", "link_loop"} => status = "running"

\* the first node's write failed; the second node's and the link's followed
C3_Witness ==
    /\ Len(writes) = 3
    /\ ~writes[1].ok
    /\ writes[1].by = <<"node", 1>>
    /\ writes[2].by = <<"node", 2>>
    /\ writes[3].by = <<"link", 1>>

GoodVersion(doc) == "version" \in DOMAIN doc /\ doc.version = 1

\* C4 as stated: a document without a version field is accepted.
C4_VersionOptional ==
    (resp # Unset /\ ~resp.err /\ "version" \notin DOMAIN resp.json) =>
        status # "raised"

\* C4 amended: a fetched document is returned exactly when its version field is
\* present and equals 1; otherwise (no version field, or another version) the run
\* is aborted by an uncaught exception, with a non-zero exit and nothing written
\* after the fetch.
C4_VersionRequired ==
    (resp # Unset /\ ~resp.err) =>
        /\ GoodVersion(resp.json) <=> status # "raised"
        /\ ~GoodVersion(resp.json) =>
               /\ ExitCode = 1
               /\ pc = "get_nodes" => (writes = <<>> /\ ni = 0)
               /\ pc = "get_graph" =>
                      (li = 0 /\ \A k \in DOMAIN writes : writes[k].by[1] = "node")
        /\ GoodVersion(resp.json) =>
               /\ "nodes" \in DOMAIN resp.json => nodes = resp.json.nodes
               /\ "batadv" \in DOMAIN resp.json => graph = resp.json.batadv

\* a graph.json without version aborted a run that had written node batches
C4_Witness ==
    /\ resp # Unset
    /\ ~resp.err
    /\ "version" \notin DOMAIN resp.json
    /\ status = "raised"
    /\ pc = "get_graph"
    /\ writes # <<>>

\* C6 as stated: a failed fetch ends the run with no batch handed to the writer.
C6_NoBatchOnFetchFailure ==
    (resp # Unset /\ resp.err) => (status = "exited" /\ writes = <<>>)

\* C6 amended: a failed fetch ends the run with exit status 1. When it is the
\* node-info fetch, nothing was written; when it is the topology fetch, no link
\* batch was written, but every node was consumed and each batch that could be
\* built was handed to the writer before.
C6_FetchFailureExits ==
    (resp # Unset /\ resp.err) =>
        /\ status = "exited"
        /\ ExitCode = 1
        /\ pc = "get_nodes" => (writes = <<>> /\ ni = 0)
        /\ pc = "get_graph" =>
               /\ ni = Len(nodes)
               /\ li = 0
               /\ \A k \in DOMAIN writes : writes[k].by[1] = "node"
               /\ \A i \in 1..ni : WellFormed(nodes[i][2]) => Calls(<<"node", i>>) # {}

\* the topology fetch failed after node batches had been written
C6_Witness ==
    /\ resp # Unset
    /\ resp.err
    /\ pc = "get_graph"
    /\ status = "exited"
    /\ writes # <<>>

\* C7: a gateway node gets no call of write_points and no point carries its
\* node_id, whatever its statistics, tags and location are; the loop goes on,
\* and each well-formed node after it gets exactly one call.
C7_GatewaySkipped ==
    /\ pc = "node_loop" => status = "running"
    /\ \A i \in 1..ni :
           RoleIsGateway(nodes[i][2]) =>
               /\ Calls(<<"node", i>>) = {}
               /\ \A k \in DOMAIN writes :
                      writes[k].by[1] = "node" =>
                          \A p \in DOMAIN writes[k].points :
                              writes[k].points[p].tags.node_id # nodes[i][2].nodeinfo.node_id
               /\ \A j \in (i + 1)..ni :
                      WellFormed(nodes[j][2]) => Cardinality(Calls(<<"node", j>>)) = 1

\* a gateway whose statistics would not coerce, then a well-formed node with its batch
C7_Witness ==
    /\ ni = 2
    /\ RoleIsGateway(nodes[1][2])
    /\ CoercionFails(nodes[1][2])
    /\ Calls(<<"node", 1>>) = {}
    /\ WellFormed(nodes[2][2])
    /\ Cardinality(Calls(<<"node", 2>>)) = 1

\* the index is a position of the topology node list
IsPosition(g, index) == index \in 0..(Len(g.nodes) - 1)

\* the link's two indices are positions and both node_ids are in the node-info map
Resolvable(g, real_nodes, link) ==
    /\ IsPosition(g, link.source)
    /\ IsPosition(g, link.target)
    /\ DictHas(real_nodes, g.nodes[link.source + 1].node_id)
    /\ DictHas(real_nodes, g.nodes[link.target + 1].node_id)

\* C5 as stated: a link with an index that is no position of the topology node
\* list (a negative one included), or with a node_id unknown to the node-info
\* map, gets no call of write_points, and the loop goes on to the other links.
C5_UnresolvableLinkSkipped ==
    /\ pc = "link_loop" => status = "running"
    /\ \A j \in 1..li :
           ~Resolvable(graph, nodes, graph.links[j]) => Calls(<<"link", j>>) = {}

====
